---- MODULE Spec2Model ----
(***************************************************************************)
(* Model of the cross-chain NFT bridge relayer: the BRequest state machine *)
(* and its persistence, the pending / completed collections, request       *)
(* intake, the two event listeners, the two tx workers and the recovery    *)
(* orchestrator, all sharing one key-value store.                          *)
(*                                                                         *)
(* Strings are sequences of one-character strings, so the empty String is  *)
(* <<>> and concatenation is \o.  Every task is cut into steps at its      *)
(* store accesses and chain calls: the runtime is a multi-threaded pool    *)
(* and a put or get is the only atomic unit the store offers.              *)
(* last_update (wall-clock time) is not modelled.                          *)
(***************************************************************************)
EXTENDS Integers, Sequences, FiniteSets, TLC

\* ------------------------------------------------------------------ bounds
\* Inputs from outside the relayer in one run: intake calls, delivered chain
\* logs, transactions the chains accept, and restarts.
MaxStimuli == 6
\* Longest pending list the add_pending / remove_pending call sequences build.
MaxPending == 3
ChannelCap == 50   \* mpsc::channel::<TxMessage>(50)

\* ------------------------------------------------------------- data model
None == [status |-> "None"]

EmptyString == <<>>

OutputDefault ==
    [detination_token_id_or_account |-> EmptyString,
     detination_contract_id_or_mint |-> EmptyString]

\* Destination account strings an intake call may carry.
SolPubkey  == <<"s">>
EvmAddress == <<"e">>
NotAnAddress == <<"x">>

PubkeyFromStrOk(s)  == s = SolPubkey
AddressFromStrOk(s) == s = EvmAddress

EvmTriple == [contract_or_mint |-> <<"A">>, token_id |-> <<"7">>, token_owner |-> <<"O">>]
SolTriple == [contract_or_mint |-> <<"M">>, token_id |-> EmptyString, token_owner |-> <<"K">>]

InputRequest(triple, origin, dest) ==
    [contract_or_mint |-> triple.contract_or_mint,
     token_id |-> triple.token_id,
     token_owner |-> triple.token_owner,
     origin_network |-> origin,
     destination_account |-> dest]

\* The requests the HTTP layer can hand to intake.
Inputs ==
    {InputRequest(EvmTriple, "EVM", d) : d \in {SolPubkey, NotAnAddress}}
      \cup {InputRequest(SolTriple, "SOLANA", d) : d \in {EvmAddress, NotAnAddress}}

\* keccak256 of the raw concatenation; the digest is taken as injective on
\* byte strings, so the concatenation itself stands for it.
generate_id(contract, token_id, token_owner) == contract \o token_id \o token_owner

Ids == {generate_id(i.contract_or_mint, i.token_id, i.token_owner) : i \in Inputs}

BRequestNew(input) ==
    [id |-> generate_id(input.contract_or_mint, input.token_id, input.token_owner),
     status |-> "RequestReceived",
     input |-> input,
     tx_hashes |-> <<>>,
     output |-> OutputDefault]

Terminal == {"Completed", "Canceled"}

\* ---------------------------------------------- state machine (in memory)
\* Variant: a canceled request is taken up again.
update_state_resumes_canceled(r) ==
    [r EXCEPT !.status =
        CASE @ = "RequestReceived" -> "TokenReceived"
          [] @ = "TokenReceived"   -> "TokenMinted"
          [] @ = "TokenMinted"     -> "Completed"
          [] @ = "Canceled"        -> "RequestReceived"
          [] OTHER                 -> @]

\* Variant: canceling forgets the transactions sent so far.
cancel_clears_tx(r) == [r EXCEPT !.status = "Canceled", !.tx_hashes = <<>>]

update_state(r) ==
    [r EXCEPT !.status =
        CASE @ = "RequestReceived" -> "TokenReceived"
          [] @ = "TokenReceived"   -> "TokenMinted"
          [] @ = "TokenMinted"     -> "Completed"
          [] OTHER                 -> @]

cancel(r) == [r EXCEPT !.status = "Canceled"]

finalize(r, token_contract, token_id) ==
    [r EXCEPT !.output = [detination_token_id_or_account |-> token_id,
                          detination_contract_id_or_mint |-> token_contract]]

add_tx(r, tx) == [r EXCEPT !.tx_hashes = Append(@, tx)]

\* ------------------------------------------------------ destination values
\* Solana mint PDA derived from the origin contract and token id, and the
\* associated token account of the destination for that mint.
MintPda(r) == <<"p">> \o r.input.contract_or_mint \o r.input.token_id
AssociatedTokenAddress(owner, mint) == <<"a">> \o owner \o mint
\* EVM side: the bridge's tokenAddress() and the U256 of the decoded mint.
TokenAddress == <<"T">>
U256OfMint(r) == <<"u">> \o r.input.contract_or_mint

DestContract(r) ==
    IF r.input.origin_network = "EVM" THEN MintPda(r) ELSE TokenAddress
DestToken(r) ==
    IF r.input.origin_network = "EVM"
      THEN AssociatedTokenAddress(r.input.destination_account, MintPda(r))
      ELSE U256OfMint(r)

\* --------------------------------------------------- pending collections
\* Vec::swap_remove on a 0-based slot.
swap_remove(list, slot) ==
    LET n == Len(list)
        moved == [list EXCEPT ![slot + 1] = list[n]]
    IN  SubSeq(moved, 1, n - 1)

MapInsert(m, k, v) == [x \in (DOMAIN m) \cup {k} |-> IF x = k THEN v ELSE m[x]]
MapRemove(m, k)    == [x \in (DOMAIN m) \ {k} |-> m[x]]
EmptyMap == [x \in {} |-> 0]


\* Option<Vec<String>> / Option<HashMap<String, i128>> as stored under a key.
NoValue  == [some |-> FALSE, v |-> <<>>]
Some(x)  == [some |-> TRUE, v |-> x]

\* ------------------------------------------------------------------ state
\* "intake" and "intake2" are two calls of the HTTP handler that may overlap.
Tasks == {"intake", "intake2", "evmL", "solL", "evmW", "solW", "rec"}

NoTx == [kind |-> "none", n |-> 0]
NoId == <<"?">>

VARIABLES
    db,                      \* request-id -> BRequest, or None
    pending_requests,        \* value under the key pending_requests
    pending_requests_index,  \* value under the key pending_requests_index
    completed_requests,      \* value under the key completed_requests
    tx_sol, tx_evm,          \* the two TxMessage channels (to the Solana / EVM worker)
    txCount, locked, minted, \* chain side: txs landed, ids locked, ids minted
    stimuli,                 \* intake calls, logs, landed txs and restarts so far
    intakes, restarts,       \* of these, the intake calls and the restarts
    pc,                      \* position of every task
    req,                     \* the in-memory `request` of every task
    rid,                     \* the request_id argument a task works on
    ltx,                     \* the tx hash a task holds after a chain submit
    pread,                   \* pending list / index as read by add / remove
    recQueue,                \* ids the recovery pass has still to visit
    recOuter,                \* `request` of process_pending_request
    intakeResult             \* what the last new_request call returned

store == <<db, pending_requests, pending_requests_index, completed_requests>>
chans == <<tx_sol, tx_evm>>
chain == <<txCount, locked, minted>>
count == <<stimuli, intakes, restarts>>
local == <<pc, req, rid, ltx, pread>>
recov == <<recQueue, recOuter>>
vars  == <<store, chans, chain, count, local, recov, intakeResult>>

NoRead == [list |-> NoValue, index |-> NoValue]

Init ==
    /\ db = [i \in Ids |-> None]
    /\ pending_requests = NoValue
    /\ pending_requests_index = NoValue
    /\ completed_requests = NoValue
    /\ tx_sol = <<>> /\ tx_evm = <<>>
    /\ txCount = 0 /\ locked = {} /\ minted = {}
    /\ stimuli = 0 /\ intakes = 0 /\ restarts = 0
    /\ pc = [t \in Tasks |-> IF t = "rec" THEN "done" ELSE "idle"]
    /\ req = [t \in Tasks |-> None]
    /\ rid = [t \in Tasks |-> NoId]
    /\ ltx = [t \in Tasks |-> NoTx]
    /\ pread = [t \in Tasks |-> NoRead]
    /\ recQueue = <<>>
    /\ recOuter = None
    /\ intakeResult = [kind |-> "none", id |-> NoId]

\* Database::write_value of a request under its id.
write_value(r) == db' = [db EXCEPT ![r.id] = r]

Goto(t, l) == pc' = [pc EXCEPT ![t] = l]

\* ----------------------------------------------------------------- intake
\* Variant: only a request still at RequestReceived counts as existing.
already_existing_request_first_step(request_id) ==
    /\ db[request_id] # None
    /\ db[request_id].status = "RequestReceived"

\* Variant: a Completed request counts as existing too.
already_existing_request_unless_canceled(request_id) ==
    /\ db[request_id] # None
    /\ db[request_id].status # "Canceled"

already_existing_request(request_id) ==
    /\ db[request_id] # None
    /\ db[request_id].status # "Canceled"
    /\ db[request_id].status # "Completed"

DestinationOk(input) ==
    IF input.origin_network = "EVM"
      THEN PubkeyFromStrOk(input.destination_account)
      ELSE AddressFromStrOk(input.destination_account)

\* new_request(input), called as h, up to the awaited lock transaction: the
\* id, the in-flight check, then the destination check.
new_request_by(h, input) ==
    LET request == BRequestNew(input) IN
    IF already_existing_request(request.id)
      THEN /\ intakeResult' = [kind |-> "AlreadyExistingRequest", id |-> request.id]
           /\ UNCHANGED <<pc, req, rid>>
      ELSE IF ~DestinationOk(input)
        THEN /\ intakeResult' = [kind |-> "InvalidDestinationAccount", id |-> request.id]
             /\ UNCHANGED <<pc, req, rid>>
        ELSE /\ intakeResult' = [kind |-> "none", id |-> request.id]
             /\ req' = [req EXCEPT ![h] = request]
             /\ rid' = [rid EXCEPT ![h] = request.id]
             /\ Goto(h, "lock")

new_request_start(input) == new_request_by("intake", input)

IntakeStartBy(h) ==
    /\ pc[h] = "idle"
    /\ stimuli < MaxStimuli
    /\ stimuli' = stimuli + 1
    /\ intakes' = intakes + 1
    /\ \E input \in Inputs : new_request_by(h, input)
    /\ UNCHANGED <<store, chans, chain, restarts, ltx, pread, recov>>

IntakeStart == IntakeStartBy("intake")

\* Variant: the request is stored before the lock transaction is awaited, so
\* it stays stored when the transaction fails.
IntakeLock_after_store ==
    /\ pc["intake"] = "lock"
    /\ \E ok \in BOOLEAN :
         IF ok /\ stimuli < MaxStimuli
           THEN /\ stimuli' = stimuli + 1
                /\ txCount' = txCount + 1
                /\ locked' = locked \cup {rid["intake"]}
                /\ ltx' = [ltx EXCEPT !["intake"] = [kind |-> "lock", n |-> txCount + 1]]
                /\ Goto("intake", "persist")
                /\ UNCHANGED <<db, minted, intakeResult, req, rid, intakes, restarts>>
           ELSE /\ ~ok
                /\ intakeResult' =
                     [kind |-> IF req["intake"].input.origin_network = "EVM"
                                 THEN "EVMTxError" ELSE "SolanaTxError",
                      id |-> rid["intake"]]
                /\ Goto("intake", "idle")
                /\ write_value(req["intake"])
                /\ req' = [req EXCEPT !["intake"] = None]
                /\ rid' = [rid EXCEPT !["intake"] = NoId]
                /\ UNCHANGED <<chain, ltx, count>>
    /\ UNCHANGED <<pending_requests, pending_requests_index, completed_requests,
                   chans, pread, recov>>

\* initialize_evm_request / initialize_request: the lock lands or fails.
IntakeLockBy(h) ==
    /\ pc[h] = "lock"
    /\ \E ok \in BOOLEAN :
         IF ok /\ stimuli < MaxStimuli
           THEN /\ stimuli' = stimuli + 1
                /\ txCount' = txCount + 1
                /\ locked' = locked \cup {rid[h]}
                /\ ltx' = [ltx EXCEPT ![h] = [kind |-> "lock", n |-> txCount + 1]]
                /\ Goto(h, "persist")
                /\ UNCHANGED <<minted, intakeResult, req, rid, intakes, restarts>>
           ELSE /\ ~ok
                /\ intakeResult' =
                     [kind |-> IF req[h].input.origin_network = "EVM"
                                 THEN "EVMTxError" ELSE "SolanaTxError",
                      id |-> rid[h]]
                /\ Goto(h, "idle")
                /\ req' = [req EXCEPT ![h] = None]
                /\ rid' = [rid EXCEPT ![h] = NoId]
                /\ UNCHANGED <<chain, ltx, count>>
    /\ UNCHANGED <<store, chans, pread, recov>>

IntakeLock == IntakeLockBy("intake")

\* Variant: the lock hash is added to the request in memory only, and the
\* record is not put before the id goes to the pending collections.
IntakePersist_without_put ==
    /\ pc["intake"] = "persist"
    /\ req' = [req EXCEPT !["intake"] = add_tx(req["intake"], ltx["intake"])]
    /\ ltx' = [ltx EXCEPT !["intake"] = NoTx]
    /\ Goto("intake", "add_pending")
    /\ UNCHANGED <<store, chans, chain, count, rid, pread, recov, intakeResult>>

\* request.add_tx(&tx_hash, &state.db)
IntakePersistBy(h) ==
    /\ pc[h] = "persist"
    /\ LET r == add_tx(req[h], ltx[h]) IN
         /\ write_value(r)
         /\ req' = [req EXCEPT ![h] = r]
    /\ ltx' = [ltx EXCEPT ![h] = NoTx]
    /\ Goto(h, "add_pending")
    /\ UNCHANGED <<pending_requests, pending_requests_index, completed_requests,
                   chans, chain, count, rid, pread, recov, intakeResult>>

IntakePersist == IntakePersistBy("intake")

\* add_pending_request, first half: read list and index, put the list.
AddPendingList(list, request_id) ==
    IF list.some THEN Some(Append(list.v, request_id)) ELSE Some(<<request_id>>)

\* Variant: the slot is taken from the list after the push.
AddPendingIndex_after_push(read, request_id) ==
    IF read.list.some
      THEN Some(MapInsert(read.index.v, request_id, Len(read.list.v) + 1))
      ELSE Some(MapInsert(EmptyMap, request_id, 0))

\* add_pending_request, second half: the index that is put (read.index.some
\* is required when the list existed: pending_requests_index.unwrap()).
AddPendingIndex(read, request_id) ==
    IF read.list.some
      THEN Some(MapInsert(read.index.v, request_id, Len(read.list.v)))
      ELSE Some(MapInsert(EmptyMap, request_id, 0))

IntakeAddPendingBy(h) ==
    /\ pc[h] = "add_pending"
    /\ pread' = [pread EXCEPT ![h] =
                    [list |-> pending_requests, index |-> pending_requests_index]]
    /\ pending_requests' = AddPendingList(pending_requests, rid[h])
    /\ Goto(h, "add_index")
    /\ UNCHANGED <<db, pending_requests_index, completed_requests,
                   chans, chain, count, req, rid, ltx, recov, intakeResult>>

IntakeAddPending == IntakeAddPendingBy("intake")

IntakeAddIndexBy(h) ==
    /\ pc[h] = "add_index"
    /\ IF pread[h].list.some /\ ~pread[h].index.some
         THEN \* unwrap on None: the handler panics, nothing is returned
              /\ intakeResult' = [kind |-> "panic", id |-> rid[h]]
              /\ UNCHANGED pending_requests_index
         ELSE /\ pending_requests_index' = AddPendingIndex(pread[h], rid[h])
              /\ intakeResult' = [kind |-> "Ok", id |-> rid[h]]
    /\ Goto(h, "idle")
    /\ req' = [req EXCEPT ![h] = None]
    /\ rid' = [rid EXCEPT ![h] = NoId]
    /\ pread' = [pread EXCEPT ![h] = NoRead]
    /\ UNCHANGED <<db, pending_requests, completed_requests,
                   chans, chain, count, ltx, recov>>

IntakeAddIndex == IntakeAddIndexBy("intake")

Intake == IntakeStart \/ IntakeLock \/ IntakePersist \/ IntakeAddPending \/ IntakeAddIndex


\* ------------------------------------------------- returns and panics
IdOrigin(id) ==
    IF id = generate_id(EvmTriple.contract_or_mint, EvmTriple.token_id, EvmTriple.token_owner)
      THEN "EVM" ELSE "SOLANA"

\* Where a task continues when the function it runs returns `err`
\* ("ok", "inuse": an Err whose text has "address" and "already in use",
\* "other": any other Err).  The EVM listener unwraps check_token_owner;
\* process_pending_request cancels an EVM-origin request on "inuse".
AfterReturn(t, err) ==
    CASE t = "rec" ->
           IF err = "inuse" /\ recOuter.input.origin_network = "EVM"
             THEN "rec_cancel" ELSE "rec_next"
      [] t = "evmL" -> IF err = "ok" THEN "idle" ELSE "dead"
      [] OTHER -> "idle"

Return(t, err) ==
    /\ pc' = [pc EXCEPT ![t] = AfterReturn(t, err)]
    /\ req' = [req EXCEPT ![t] = None]
    /\ rid' = [rid EXCEPT ![t] = NoId]

Panic(t) ==
    /\ pc' = [pc EXCEPT ![t] = "dead"]
    /\ req' = [req EXCEPT ![t] = None]
    /\ rid' = [rid EXCEPT ![t] = NoId]

MintMessage(request_id) == [accion |-> "Mint", request_id |-> request_id]

\* --------------------------------------------- check_token_owner (EVM)
\* types::request_data at the head of evm::check_token_owner.
EvmCtoRead(t, id) ==
    IF db[id] = None
      THEN Return(t, "ok")
      ELSE /\ req' = [req EXCEPT ![t] = db[id]]
           /\ rid' = [rid EXCEPT ![t] = id]
           /\ Goto(t, "cto_owner")

\* ownerOf answers: cancel when the bridge is not the owner, else update_state.
EvmCtoOwner(t) ==
    /\ pc[t] = "cto_owner"
    /\ \E ans \in {"bridge", "other", "error"} :
         CASE ans = "bridge" ->
                LET r == update_state(req[t]) IN
                /\ write_value(r)
                /\ req' = [req EXCEPT ![t] = r]
                /\ Goto(t, "cto_send")
                /\ UNCHANGED rid
           [] ans = "other" ->
                LET r == cancel(req[t]) IN
                /\ write_value(r)
                /\ req' = [req EXCEPT ![t] = r]
                /\ Goto(t, "cto_update")
                /\ UNCHANGED rid
           [] OTHER ->
                /\ Return(t, "other")
                /\ UNCHANGED db
    /\ UNCHANGED <<pending_requests, pending_requests_index, completed_requests,
                   chans, chain, count, ltx, pread, recov, intakeResult>>

\* request.update_state(db)? after the cancel.
EvmCtoUpdate(t) ==
    /\ pc[t] = "cto_update"
    /\ LET r == update_state(req[t]) IN
         /\ write_value(r)
         /\ req' = [req EXCEPT ![t] = r]
    /\ Goto(t, "cto_send")
    /\ UNCHANGED <<pending_requests, pending_requests_index, completed_requests,
                   chans, chain, count, rid, ltx, pread, recov, intakeResult>>

\* get_token_metadata(..).unwrap(), then the Mint message to the Solana worker.
EvmCtoSend(t) ==
    /\ pc[t] = "cto_send"
    /\ \E ok \in BOOLEAN :
         IF ok
           THEN /\ Len(tx_sol) < ChannelCap
                /\ tx_sol' = Append(tx_sol, MintMessage(rid[t]))
                /\ Return(t, "ok")
           ELSE /\ Panic(t)
                /\ UNCHANGED tx_sol
    /\ UNCHANGED <<store, tx_evm, chain, count, ltx, pread, recov, intakeResult>>

\* ------------------------------------------ check_token_owner (Solana)
SolCtoRead(t, id) ==
    IF db[id] = None \/ db[id].status # "RequestReceived"
      THEN Return(t, "ok")
      ELSE /\ req' = [req EXCEPT ![t] = db[id]]
           /\ rid' = [rid EXCEPT ![t] = id]
           /\ Goto(t, "scto_owner")

\* get_account_data(..).unwrap() and the owner / amount test.
SolCtoOwner(t) ==
    /\ pc[t] = "scto_owner"
    /\ \E ans \in {"held", "not_held", "error"} :
         CASE ans = "held" ->
                LET r == update_state(req[t]) IN
                /\ write_value(r)
                /\ req' = [req EXCEPT ![t] = r]
                /\ Goto(t, "scto_send")
                /\ UNCHANGED rid
           [] ans = "not_held" ->
                /\ Return(t, "ok")
                /\ UNCHANGED db
           [] OTHER ->
                /\ Panic(t)
                /\ UNCHANGED db
    /\ UNCHANGED <<pending_requests, pending_requests_index, completed_requests,
                   chans, chain, count, ltx, pread, recov, intakeResult>>

\* get_metadata(..).unwrap(), then the Mint message to the EVM worker.
SolCtoSend(t) ==
    /\ pc[t] = "scto_send"
    /\ \E ok \in BOOLEAN :
         IF ok
           THEN /\ Len(tx_evm) < ChannelCap
                /\ tx_evm' = Append(tx_evm, MintMessage(rid[t]))
                /\ Return(t, "ok")
           ELSE /\ Panic(t)
                /\ UNCHANGED tx_evm
    /\ UNCHANGED <<store, tx_sol, chain, count, ltx, pread, recov, intakeResult>>

\* -------------------------------------------------------- event listeners
ListenerChain(t) == IF t = "evmL" THEN "EVM" ELSE "SOLANA"

\* A NewRequest log of a lock the relayer submitted on the listener's chain
\* (logs are delivered at least once).
NewRequestEvent(t) ==
    /\ pc[t] = "idle"
    /\ stimuli < MaxStimuli
    /\ stimuli' = stimuli + 1
    /\ \E id \in locked :
         /\ IdOrigin(id) = ListenerChain(t)
         /\ IF t = "evmL" THEN EvmCtoRead(t, id) ELSE SolCtoRead(t, id)
    /\ UNCHANGED <<store, chans, chain, intakes, restarts, ltx, pread, recov, intakeResult>>

\* The request as minted on the destination chain for `id`.
MintedOutput(id) ==
    LET i == CHOOSE x \in Inputs :
                 /\ generate_id(x.contract_or_mint, x.token_id, x.token_owner) = id
                 /\ DestinationOk(x)
        r == BRequestNew(i)
    IN  [detination_token_id_or_account |-> DestToken(r),
         detination_contract_id_or_mint |-> DestContract(r)]

OtherOutput ==
    [detination_token_id_or_account |-> <<"z">>,
     detination_contract_id_or_mint |-> <<"z">>]

\* Variant: the event's fields are not compared with the stored output.
TokenMintedMatches_status_only(r, fields) ==
    /\ r # None
    /\ r.status = "TokenMinted"

\* The test a listener applies to a TokenMinted log.
TokenMintedMatches(r, fields) ==
    /\ r # None
    /\ r.status = "TokenMinted"
    /\ r.output.detination_contract_id_or_mint = fields.detination_contract_id_or_mint
    /\ r.output.detination_token_id_or_account = fields.detination_token_id_or_account

\* The TokenMinted arm of listener t on a log naming request id with the
\* token and destination `fields`: the request is read and tested.
TokenMintedEventOn(t, id, fields) ==
    IF TokenMintedMatches(db[id], fields)
      THEN /\ req' = [req EXCEPT ![t] = db[id]]
           /\ rid' = [rid EXCEPT ![t] = id]
           /\ Goto(t, "tm_update")
      ELSE UNCHANGED <<pc, req, rid>>

\* A TokenMinted log of a mint submitted on the listener's chain.
TokenMintedEvent(t) ==
    /\ pc[t] = "idle"
    /\ stimuli < MaxStimuli
    /\ stimuli' = stimuli + 1
    /\ \E id \in minted : \E fields \in {MintedOutput(id), OtherOutput} :
         /\ IdOrigin(id) # ListenerChain(t)
         /\ TokenMintedEventOn(t, id, fields)
    /\ UNCHANGED <<store, chans, chain, intakes, restarts, ltx, pread, recov, intakeResult>>

\* request.update_state(db)? of the TokenMinted branch.
TokenMintedUpdate(t) ==
    /\ pc[t] = "tm_update"
    /\ write_value(update_state(req[t]))
    /\ Return(t, "ok")
    /\ UNCHANGED <<pending_requests, pending_requests_index, completed_requests,
                   chans, chain, count, ltx, pread, recov, intakeResult>>


\* ------------------------------------------------------- mint_new_token
\* types::request_data at the head of mint_new_token (both chains).
MintRead(t, id) ==
    IF db[id] = None
      THEN Return(t, "ok")
      ELSE /\ req' = [req EXCEPT ![t] = db[id]]
           /\ rid' = [rid EXCEPT ![t] = id]
           /\ Goto(t, "mint_tx")

\* The mint transaction is sent and confirmed, or fails.  The recovery
\* pass gets the Err back; a Solana mint can fail with "already in use".
MintTx(t) ==
    /\ pc[t] = "mint_tx"
    /\ \E ans \in {"ok", "inuse", "other"} :
         CASE ans = "ok" ->
                /\ stimuli < MaxStimuli
                /\ stimuli' = stimuli + 1
                /\ txCount' = txCount + 1
                /\ minted' = minted \cup {rid[t]}
                /\ ltx' = [ltx EXCEPT ![t] = [kind |-> "mint", n |-> txCount + 1]]
                /\ Goto(t, "mint_add_tx")
                /\ UNCHANGED <<locked, req, rid, intakes, restarts>>
           [] ans = "inuse" ->
                /\ req[t].input.origin_network = "EVM"
                /\ Return(t, "inuse")
                /\ UNCHANGED <<chain, ltx, count>>
           [] OTHER ->
                /\ Return(t, "other")
                /\ UNCHANGED <<chain, ltx, count>>
    /\ UNCHANGED <<store, chans, pread, recov, intakeResult>>

\* request.add_tx(&tx_hash, db)?
MintAddTx(t) ==
    /\ pc[t] = "mint_add_tx"
    /\ LET r == add_tx(req[t], ltx[t]) IN
         /\ write_value(r)
         /\ req' = [req EXCEPT ![t] = r]
         /\ Goto(t, IF r.status = "TokenReceived" THEN "mint_update" ELSE "mint_finalize")
    /\ ltx' = [ltx EXCEPT ![t] = NoTx]
    /\ UNCHANGED <<pending_requests, pending_requests_index, completed_requests,
                   chans, chain, count, rid, pread, recov, intakeResult>>

\* if request.status == Status::TokenReceived { request.update_state(db)? }
MintUpdate(t) ==
    /\ pc[t] = "mint_update"
    /\ LET r == update_state(req[t]) IN
         /\ write_value(r)
         /\ req' = [req EXCEPT ![t] = r]
    /\ Goto(t, "mint_finalize")
    /\ UNCHANGED <<pending_requests, pending_requests_index, completed_requests,
                   chans, chain, count, rid, ltx, pread, recov, intakeResult>>

\* BRequest::finalize, the record: output fields set, record put.
MintFinalize(t) ==
    /\ pc[t] = "mint_finalize"
    /\ LET r == finalize(req[t], DestContract(req[t]), DestToken(req[t])) IN
         /\ write_value(r)
         /\ req' = [req EXCEPT ![t] = r]
    /\ Goto(t, "mint_completed")
    /\ UNCHANGED <<pending_requests, pending_requests_index, completed_requests,
                   chans, chain, count, rid, ltx, pread, recov, intakeResult>>

add_completed_request(request_id) ==
    completed_requests' =
        IF completed_requests.some
          THEN Some(Append(completed_requests.v, request_id))
          ELSE Some(<<request_id>>)

\* BRequest::finalize, the list: add_completed_request, then finalize and
\* mint_new_token return.
MintCompleted(t) ==
    /\ pc[t] = "mint_completed"
    /\ add_completed_request(req[t].id)
    /\ Return(t, "ok")
    /\ UNCHANGED <<db, pending_requests, pending_requests_index,
                   chans, chain, count, ltx, pread, recov, intakeResult>>

\* ------------------------------------------------------------ tx workers
WorkerChannel(t) == IF t = "solW" THEN tx_sol ELSE tx_evm

\* process_message: a Mint message is received and mint_new_token starts.
WorkerRecv(t) ==
    /\ pc[t] = "idle"
    /\ WorkerChannel(t) # <<>>
    /\ IF t = "solW"
         THEN tx_sol' = Tail(tx_sol) /\ UNCHANGED tx_evm
         ELSE tx_evm' = Tail(tx_evm) /\ UNCHANGED tx_sol
    /\ MintRead(t, Head(WorkerChannel(t)).request_id)
    /\ UNCHANGED <<store, chain, count, ltx, pread, recov, intakeResult>>


\* --------------------------------------------------- recovery orchestrator
\* process_pending_request: the next id of the list read at startup; its
\* record is read and the origin / status match picks the branch.
RecNext ==
    /\ pc["rec"] = "rec_next"
    /\ IF recQueue = <<>>
         THEN /\ Goto("rec", "done")
              /\ recOuter' = None
              /\ UNCHANGED <<recQueue, req, rid>>
         ELSE LET id == Head(recQueue)
                  request == db[id]
              IN  /\ recQueue' = Tail(recQueue)
                  /\ IF request = None
                       THEN UNCHANGED <<pc, recOuter, req, rid>>
                       ELSE /\ recOuter' = request
                            /\ rid' = [rid EXCEPT !["rec"] = id]
                            /\ UNCHANGED req
                            /\ Goto("rec",
                                 CASE request.status = "RequestReceived" ->
                                        IF request.input.origin_network = "EVM"
                                          THEN "cto_read" ELSE "scto_read"
                                   [] request.status = "TokenReceived" -> "cfm"
                                   [] request.status = "TokenMinted" -> "rec_minted"
                                   [] OTHER -> "rm_pending")
    /\ UNCHANGED <<store, chans, chain, count, ltx, pread, intakeResult>>

\* check_token_owner as called by the recovery pass: it reads the record again.
RecCheckOwner ==
    /\ pc["rec"] \in {"cto_read", "scto_read"}
    /\ IF pc["rec"] = "cto_read"
         THEN EvmCtoRead("rec", rid["rec"])
         ELSE SolCtoRead("rec", rid["rec"])
    /\ UNCHANGED <<store, chans, chain, count, ltx, pread, recov, intakeResult>>

\* continue_from_metadata: the origin metadata is read; mint_new_token
\* starts when it is there.  solana::get_metadata panics when it is not.
RecContinueFromMetadata ==
    /\ pc["rec"] = "cfm"
    /\ \E ok \in BOOLEAN :
         IF ok
           THEN MintRead("rec", recOuter.id)
           ELSE IF recOuter.input.origin_network = "EVM"
                  THEN Return("rec", "ok")
                  ELSE Panic("rec")
    /\ UNCHANGED <<store, chans, chain, count, ltx, pread, recov, intakeResult>>

\* What the destination chain answers about a TokenMinted request: the last
\* tx hash is unknown to it ("missing"), or known with the destination
\* token's metadata readable or unreadable, or the lookup itself fails.
MintedAnswers == {"missing", "readable", "unreadable", "error"}

\* The TokenMinted arm of process_evm_pending_request and
\* process_solana_pending_request on the answer ans.
RecMintedOn(ans) ==
    LET evm == recOuter.input.origin_network = "EVM"
        noOutput == recOuter.output.detination_contract_id_or_mint = EmptyString
    IN
    CASE ans = "missing" ->
           /\ Goto("rec", "cfm")
           /\ UNCHANGED <<db, req, rid>>
      [] ans = "readable" ->
           IF noOutput
             THEN Panic("rec") /\ UNCHANGED db
             ELSE /\ write_value(update_state(recOuter))
                  /\ Return("rec", "ok")
      [] ans = "unreadable" ->
           IF noOutput \/ evm
             THEN Panic("rec") /\ UNCHANGED db
             ELSE /\ Goto("rec", "cfm")
                  /\ UNCHANGED <<db, req, rid>>
      [] OTHER ->
           \* evm::get_transaction_data(..).await.unwrap()
           /\ ~evm
           /\ Panic("rec")
           /\ UNCHANGED db

\* The TokenMinted branch: the last tx hash is looked up on the
\* destination chain, then the destination metadata.
RecMinted ==
    /\ pc["rec"] = "rec_minted"
    /\ IF recOuter.tx_hashes = <<>>
         THEN Panic("rec") /\ UNCHANGED db
         ELSE \E ans \in MintedAnswers : RecMintedOn(ans)
    /\ UNCHANGED <<pending_requests, pending_requests_index, completed_requests,
                   chans, chain, count, ltx, pread, recov, intakeResult>>

\* request.cancel(&state.db) on the record read at the head of the visit.
RecCancel ==
    /\ pc["rec"] = "rec_cancel"
    /\ write_value(cancel(recOuter))
    /\ Goto("rec", "rec_next")
    /\ UNCHANGED <<pending_requests, pending_requests_index, completed_requests,
                   chans, chain, count, req, rid, ltx, pread, recov, intakeResult>>

\* remove_pending_request: what makes it panic (the unwraps, the index of
\* the last element, swap_remove out of range).
RemovePanics(read, request_id) ==
    \/ ~read.index.some
    \/ request_id \notin DOMAIN read.index.v
    \/ Len(read.list.v) = 0
    \/ read.index.v[request_id] >= Len(read.list.v)

RemovePendingList(read, request_id) ==
    Some(swap_remove(read.list.v, read.index.v[request_id]))

RemovePendingIndex(read, request_id) ==
    LET slot == read.index.v[request_id]
        last_id == read.list.v[Len(read.list.v)]
        indexes == MapRemove(read.index.v, request_id)
    IN  Some(IF last_id \in DOMAIN indexes
               THEN [indexes EXCEPT ![last_id] = slot]
               ELSE indexes)

\* remove_pending_request, first half: read list and index, put the list.
RecRemoveList ==
    /\ pc["rec"] = "rm_pending"
    /\ LET read == [list |-> pending_requests, index |-> pending_requests_index] IN
       IF ~read.list.some
         THEN /\ Return("rec", "ok")
              /\ UNCHANGED <<pending_requests, pread>>
         ELSE IF RemovePanics(read, recOuter.id)
           THEN /\ Panic("rec")
                /\ UNCHANGED <<pending_requests, pread>>
           ELSE /\ pending_requests' = RemovePendingList(read, recOuter.id)
                /\ pread' = [pread EXCEPT !["rec"] = read]
                /\ Goto("rec", "rm_index")
                /\ UNCHANGED <<req, rid>>
    /\ UNCHANGED <<db, pending_requests_index, completed_requests,
                   chans, chain, count, ltx, recov, intakeResult>>

\* remove_pending_request, second half: put the index.
RecRemoveIndex ==
    /\ pc["rec"] = "rm_index"
    /\ pending_requests_index' = RemovePendingIndex(pread["rec"], recOuter.id)
    /\ pread' = [pread EXCEPT !["rec"] = NoRead]
    /\ Return("rec", "ok")
    /\ UNCHANGED <<db, pending_requests, completed_requests,
                   chans, chain, count, ltx, recov, intakeResult>>

Recovery ==
    \/ RecNext \/ RecCheckOwner \/ RecContinueFromMetadata \/ RecMinted
    \/ RecCancel \/ RecRemoveList \/ RecRemoveIndex

\* ------------------------------------------------------ crash and restart
\* The process stops at any point and is started again: the store and the
\* chains keep their state, every task starts over, the channels are new,
\* and start_background_process spawns the recovery pass over the pending
\* list it reads (when the key exists).
Restart ==
    /\ stimuli < MaxStimuli
    /\ stimuli' = stimuli + 1
    /\ restarts' = restarts + 1
    /\ pc' = [t \in Tasks |->
                IF t = "rec"
                  THEN (IF pending_requests.some THEN "rec_next" ELSE "done")
                  ELSE "idle"]
    /\ req' = [t \in Tasks |-> None]
    /\ rid' = [t \in Tasks |-> NoId]
    /\ ltx' = [t \in Tasks |-> NoTx]
    /\ pread' = [t \in Tasks |-> NoRead]
    /\ tx_sol' = <<>> /\ tx_evm' = <<>>
    /\ recQueue' = pending_requests.v
    /\ recOuter' = None
    /\ intakeResult' = [kind |-> "none", id |-> NoId]
    /\ UNCHANGED <<store, chain, intakes>>

\* ------------------------------------------------------- the whole system
CheckTokenOwner ==
    \E t \in {"evmL", "solL", "rec"} :
        \/ EvmCtoOwner(t) \/ EvmCtoUpdate(t) \/ EvmCtoSend(t)
        \/ SolCtoOwner(t) \/ SolCtoSend(t)

Listeners ==
    \E t \in {"evmL", "solL"} :
        NewRequestEvent(t) \/ TokenMintedEvent(t) \/ TokenMintedUpdate(t)

MintNewToken ==
    \E t \in {"evmW", "solW", "rec"} :
        MintTx(t) \/ MintAddTx(t) \/ MintUpdate(t) \/ MintFinalize(t) \/ MintCompleted(t)

Workers == \E t \in {"evmW", "solW"} : WorkerRecv(t)

Next ==
    \/ Intake
    \/ Listeners
    \/ CheckTokenOwner
    \/ Workers
    \/ MintNewToken
    \/ Recovery
    \/ Restart

Spec == Init /\ [][Next]_vars

\* ------------------------------------- the pending collections on their own
\* add_pending_request and remove_pending_request called one after the
\* other, each call running to its end, for the ids intake and recovery may
\* pass: any id for add (a new bridge of a listed id adds it again), any id
\* for remove (the recovery pass removes the ids of the list it read).
PendingIds == {<<"A">>, <<"B">>, <<"C">>}

\* A Canceled request of the given id, as the recovery pass reads it.
PendingRequest(id) ==
    cancel(BRequestNew(InputRequest(
        [contract_or_mint |-> id, token_id |-> EmptyString, token_owner |-> EmptyString],
        "EVM", SolPubkey)))

NoCall == pc["intake"] = "idle" /\ pc["rec"] = "done"

\* new_request reaching `_ = add_pending_request(&request.id, &state.db)`.
CallAdd ==
    /\ NoCall
    /\ ~pending_requests.some \/ Len(pending_requests.v) < MaxPending
    /\ \E id \in PendingIds :
         /\ rid' = [rid EXCEPT !["intake"] = id]
         /\ Goto("intake", "add_pending")
    /\ UNCHANGED <<store, chans, chain, count, req, ltx, pread, recov, intakeResult>>

\* The Completed / Canceled arm of the recovery pass reaching
\* remove_pending_request(&request.id, &state.db).
CallRemove ==
    /\ NoCall
    /\ \E id \in PendingIds :
         /\ recOuter' = PendingRequest(id)
         /\ rid' = [rid EXCEPT !["rec"] = id]
         /\ Goto("rec", "rm_pending")
    /\ UNCHANGED <<store, chans, chain, count, req, ltx, pread, recQueue, intakeResult>>

NextPending ==
    \/ CallAdd \/ IntakeAddPending \/ IntakeAddIndex
    \/ CallRemove \/ RecRemoveList \/ RecRemoveIndex \/ RecNext

SpecPending == Init /\ [][NextPending]_vars


\* ------------------------------------------- the failure-free, fair system
\* No crash, no chain or storage failure: every transaction lands, ownerOf and
\* the token account answer that the bridge holds the locked token, metadata
\* is readable.  Each log is delivered to its listener once: under SpecFair
\* locked and minted hold the ids whose NewRequest / TokenMinted log the
\* subscription has still to deliver, and delivery takes the id out.  The
\* recovery pass does not run (it is spawned at start over an absent list).

\* Intake calls made under SpecFair: each accepted call needs a lock and a
\* mint out of the same budget.
FairCalls == MaxStimuli \div 3

FairIntakeStart == IntakeStart /\ intakes < FairCalls

FairIntakeLock == IntakeLock /\ pc'["intake"] = "persist"

FairNewRequestEvent(t) ==
    /\ pc[t] = "idle"
    /\ \E id \in locked :
         /\ IdOrigin(id) = ListenerChain(t)
         /\ IF t = "evmL" THEN EvmCtoRead(t, id) ELSE SolCtoRead(t, id)
         /\ locked' = locked \ {id}
    /\ UNCHANGED <<store, chans, txCount, minted, count, ltx, pread, recov, intakeResult>>

FairTokenMintedEvent(t) ==
    /\ pc[t] = "idle"
    /\ \E id \in minted :
         /\ IdOrigin(id) # ListenerChain(t)
         /\ TokenMintedEventOn(t, id, MintedOutput(id))
         /\ minted' = minted \ {id}
    /\ UNCHANGED <<store, chans, txCount, locked, count, ltx, pread, recov, intakeResult>>

FairEvmCtoOwner(t) == EvmCtoOwner(t) /\ pc'[t] = "cto_send"

FairSolCtoOwner(t) == SolCtoOwner(t) /\ pc'[t] = "scto_send"

FairEvmCtoSend(t) == EvmCtoSend(t) /\ pc'[t] # "dead"

FairSolCtoSend(t) == SolCtoSend(t) /\ pc'[t] # "dead"

FairMintTx(t) == MintTx(t) /\ pc'[t] = "mint_add_tx"

\* The steps of the request handler once a call is under way.
IntakeRun ==
    FairIntakeLock \/ IntakePersist \/ IntakeAddPending \/ IntakeAddIndex

\* The steps of one listener task: its subscription's next log, then the
\* handler of that log to its end.
ListenerRun(t) ==
    \/ FairNewRequestEvent(t) \/ FairTokenMintedEvent(t) \/ TokenMintedUpdate(t)
    \/ FairEvmCtoOwner(t) \/ FairSolCtoOwner(t)
    \/ FairEvmCtoSend(t) \/ FairSolCtoSend(t)

\* The steps of one tx worker task: the next message, then mint_new_token.
WorkerRun(t) ==
    \/ WorkerRecv(t) \/ FairMintTx(t) \/ MintAddTx(t) \/ MintUpdate(t)
    \/ MintFinalize(t) \/ MintCompleted(t)

NextFair ==
    \/ FairIntakeStart
    \/ IntakeRun
    \/ \E t \in {"evmL", "solL"} : ListenerRun(t)
    \/ \E t \in {"evmW", "solW"} : WorkerRun(t)

\* Every spawned task that can take a step eventually takes one; requests
\* arrive when their senders choose.
SpecFair ==
    /\ Init
    /\ [][NextFair]_vars
    /\ WF_vars(IntakeRun)
    /\ \A t \in {"evmL", "solL"} : WF_vars(ListenerRun(t))
    /\ \A t \in {"evmW", "solW"} : WF_vars(WorkerRun(t))

\* ------------------------------------------------ the listener supervisors
\* The failure-free system with subscriptions that can return.  A listener
\* waiting for its next log is at "idle"; when its subscription call
\* returns (the stream ends, or a log does not decode) it is at "returned",
\* where its supervisor logs and sleeps.
SubscriptionReturns(t) ==
    /\ pc[t] = "idle"
    /\ Goto(t, "returned")
    /\ UNCHANGED <<store, chans, chain, count, req, rid, ltx, pread, recov, intakeResult>>

\* The EVM supervisor's loop calls catch_event again.  The new subscription
\* starts from the latest block: logs emitted before it and not yet
\* delivered are not delivered.
ReopenSubscription ==
    /\ pc["evmL"] = "returned"
    /\ Goto("evmL", "idle")
    /\ locked' = {id \in locked : IdOrigin(id) # "EVM"}
    /\ minted' = {id \in minted : IdOrigin(id) = "EVM"}
    /\ UNCHANGED <<store, chans, txCount, count, req, rid, ltx, pread, recov, intakeResult>>

\* The Solana supervisor has no loop: after the sleep its task ends.
ListenerTaskEnds ==
    /\ pc["solL"] = "returned"
    /\ Goto("solL", "dead")
    /\ UNCHANGED <<store, chans, chain, count, req, rid, ltx, pread, recov, intakeResult>>

Supervisors == ReopenSubscription \/ ListenerTaskEnds

NextSupervised ==
    \/ NextFair
    \/ \E t \in {"evmL", "solL"} : SubscriptionReturns(t)
    \/ Supervisors

\* As SpecFair; the sleep of a supervisor ends.  When a subscription
\* returns is up to the chain's endpoint.
SpecSupervised ==
    /\ Init
    /\ [][NextSupervised]_vars
    /\ WF_vars(IntakeRun)
    /\ \A t \in {"evmL", "solL"} : WF_vars(ListenerRun(t))
    /\ \A t \in {"evmW", "solW"} : WF_vars(WorkerRun(t))
    /\ WF_vars(Supervisors)

\* ------------------------------------------- the BRequest methods on their own
\* One caller creates a request with BRequest::new and applies update_state,
\* cancel, add_tx and finalize to its copy (&mut self) in any order; each
\* method puts the copy under its id.
MaxOps == 5

\* Strings for the three parts of the id, chosen so that two of them are one
\* string cut at different places.
OpContracts == {<<"A">>, <<"A", "B">>}
OpTokenIds  == {<<"7">>, <<"B", "7">>}
OpOwners    == {<<"O">>}

OpInputs ==
    {InputRequest([contract_or_mint |-> c, token_id |-> k, token_owner |-> o],
                  "EVM", SolPubkey) :
        c \in OpContracts, k \in OpTokenIds, o \in OpOwners}

OpIds == {BRequestNew(i).id : i \in OpInputs}

Caller == "intake"

InitOps ==
    /\ db = [i \in OpIds |-> None]
    /\ pending_requests = NoValue
    /\ pending_requests_index = NoValue
    /\ completed_requests = NoValue
    /\ tx_sol = <<>> /\ tx_evm = <<>>
    /\ txCount = 0 /\ locked = {} /\ minted = {}
    /\ stimuli = 0 /\ intakes = 0 /\ restarts = 0
    /\ pc = [t \in Tasks |-> IF t = "rec" THEN "done" ELSE "idle"]
    /\ \E input \in OpInputs : req = [t \in Tasks |-> IF t = Caller THEN BRequestNew(input) ELSE None]
    /\ rid = [t \in Tasks |-> NoId]
    /\ ltx = [t \in Tasks |-> NoTx]
    /\ pread = [t \in Tasks |-> NoRead]
    /\ recQueue = <<>>
    /\ recOuter = None
    /\ intakeResult = [kind |-> "none", id |-> NoId]

\* The caller's copy becomes r and is put; nothing else is written.
PutCopy(r) ==
    /\ stimuli < MaxOps
    /\ stimuli' = stimuli + 1
    /\ write_value(r)
    /\ req' = [req EXCEPT ![Caller] = r]
    /\ UNCHANGED <<pending_requests, pending_requests_index, chans, chain,
                   intakes, restarts, pc, rid, ltx, pread, recov, intakeResult>>

\* BRequest::new(input) as intake calls it: a new copy, nothing is stored;
\* the copy is dropped when its id is stored and in flight.
OpNew ==
    /\ stimuli < MaxOps
    /\ stimuli' = stimuli + 1
    /\ \E input \in OpInputs :
         /\ ~already_existing_request(BRequestNew(input).id)
         /\ req' = [req EXCEPT ![Caller] = BRequestNew(input)]
    /\ UNCHANGED <<store, chans, chain, intakes, restarts, pc, rid, ltx, pread,
                   recov, intakeResult>>

OpUpdateState == PutCopy(update_state(req[Caller])) /\ UNCHANGED completed_requests

OpCancel == PutCopy(cancel(req[Caller])) /\ UNCHANGED completed_requests

OpAddTx ==
    /\ \E kind \in {"lock", "mint"} :
         PutCopy(add_tx(req[Caller], [kind |-> kind, n |-> stimuli + 1]))
    /\ UNCHANGED completed_requests

OpFinalize ==
    /\ PutCopy(finalize(req[Caller], DestContract(req[Caller]), DestToken(req[Caller])))
    /\ add_completed_request(req[Caller].id)

NextOps == OpNew \/ OpUpdateState \/ OpCancel \/ OpAddTx \/ OpFinalize

SpecOps == InitOps /\ [][NextOps]_vars

\* ----------------------------------------------- the tx workers on their own
\* process_message of both workers, fed by any holder of a tx_channel
\* sender.  Both requests have passed intake and the ownership check: they
\* are stored at TokenReceived with their lock transaction and are pending.
WorkerTasks == {"evmW", "solW"}

WorkerChainOf(t) == IF t = "solW" THEN "SOLANA" ELSE "EVM"

NewRequestMessage(request_id) == [accion |-> "NewRequest", request_id |-> request_id]

\* A Mint message names a request bridged to the worker's chain, a
\* NewRequest message one that starts on it.
MessagesFor(t) ==
    {MintMessage(id) : id \in {i \in Ids : IdOrigin(i) # WorkerChainOf(t)}}
      \cup {NewRequestMessage(id) : id \in {i \in Ids : IdOrigin(i) = WorkerChainOf(t)}}

LockTxOf(id) == [kind |-> "lock", n |-> IF IdOrigin(id) = "EVM" THEN 1 ELSE 2]

ReceivedRecord(id) ==
    LET input == CHOOSE x \in Inputs :
                     /\ generate_id(x.contract_or_mint, x.token_id, x.token_owner) = id
                     /\ DestinationOk(x)
    IN  update_state(add_tx(BRequestNew(input), LockTxOf(id)))

\* The pending list after the two intakes, in the order of their locks.
WorkerPending ==
    <<generate_id(EvmTriple.contract_or_mint, EvmTriple.token_id, EvmTriple.token_owner),
      generate_id(SolTriple.contract_or_mint, SolTriple.token_id, SolTriple.token_owner)>>

InitWorker ==
    /\ db = [i \in Ids |-> ReceivedRecord(i)]
    /\ pending_requests = Some(WorkerPending)
    /\ pending_requests_index = Some([i \in Ids |-> LockTxOf(i).n - 1])
    /\ completed_requests = NoValue
    /\ tx_sol = <<>> /\ tx_evm = <<>>
    /\ txCount = 2 /\ locked = Ids /\ minted = {}
    /\ stimuli = 0 /\ intakes = 0 /\ restarts = 0
    /\ pc = [t \in Tasks |-> IF t = "rec" THEN "done" ELSE "idle"]
    /\ req = [t \in Tasks |-> None]
    /\ rid = [t \in Tasks |-> NoId]
    /\ ltx = [t \in Tasks |-> NoTx]
    /\ pread = [t \in Tasks |-> NoRead]
    /\ recQueue = <<>>
    /\ recOuter = None
    /\ intakeResult = [kind |-> "none", id |-> NoId]

\* tx_channel.send(message) by a holder of the sender.
SendMessage(t) ==
    /\ stimuli < MaxStimuli
    /\ stimuli' = stimuli + 1
    /\ Len(WorkerChannel(t)) < ChannelCap
    /\ \E message \in MessagesFor(t) :
         IF t = "solW"
           THEN tx_sol' = Append(tx_sol, message) /\ UNCHANGED tx_evm
           ELSE tx_evm' = Append(tx_evm, message) /\ UNCHANGED tx_sol
    /\ UNCHANGED <<store, chain, intakes, restarts, local, recov, intakeResult>>

\* process_message: rx_channel.recv() and the match on message.accion.
ProcessMessage(t) ==
    /\ pc[t] = "idle"
    /\ WorkerChannel(t) # <<>>
    /\ IF t = "solW"
         THEN tx_sol' = Tail(tx_sol) /\ UNCHANGED tx_evm
         ELSE tx_evm' = Tail(tx_evm) /\ UNCHANGED tx_sol
    /\ LET message == Head(WorkerChannel(t)) IN
         IF message.accion = "Mint"
           THEN MintRead(t, message.request_id)
           ELSE /\ rid' = [rid EXCEPT ![t] = message.request_id]
                /\ Goto(t, "new_request_tx")
                /\ UNCHANGED req
    /\ UNCHANGED <<store, chain, count, ltx, pread, recov, intakeResult>>

\* The NewRequest arm: initialize_evm_request / initialize_request is
\* awaited and its result unwrapped.
NewRequestTx(t) ==
    /\ pc[t] = "new_request_tx"
    /\ \E ok \in BOOLEAN :
         IF ok /\ stimuli < MaxStimuli
           THEN /\ stimuli' = stimuli + 1
                /\ txCount' = txCount + 1
                /\ locked' = locked \cup {rid[t]}
                /\ Return(t, "ok")
                /\ UNCHANGED <<minted, intakes, restarts>>
           ELSE /\ ~ok
                /\ Panic(t)
                /\ UNCHANGED <<chain, count>>
    /\ UNCHANGED <<store, chans, ltx, pread, recov, intakeResult>>

\* evm::mint_new_token before the transaction is built: the signer's nonce
\* and the fee estimate are unwrapped.
EvmMintSignerFails(t) ==
    /\ t = "evmW"
    /\ pc[t] = "mint_tx"
    /\ Panic(t)
    /\ UNCHANGED <<store, chans, chain, count, ltx, pread, recov, intakeResult>>

NextWorker ==
    \E t \in WorkerTasks :
        \/ SendMessage(t) \/ ProcessMessage(t) \/ NewRequestTx(t)
        \/ EvmMintSignerFails(t)
        \/ MintTx(t) \/ MintAddTx(t) \/ MintUpdate(t) \/ MintFinalize(t)
        \/ MintCompleted(t)

SpecWorker == InitWorker /\ [][NextWorker]_vars

\* ------------------------------------------- the recovery pass, scheduled
\* The whole system, with the recovery task always scheduled again: it is
\* one spawned task whose loop only awaits chain calls and sleeps 8 s
\* between two ids.
RecoveryRun ==
    \/ Recovery
    \/ EvmCtoOwner("rec") \/ EvmCtoUpdate("rec") \/ EvmCtoSend("rec")
    \/ SolCtoOwner("rec") \/ SolCtoSend("rec")
    \/ MintTx("rec") \/ MintAddTx("rec") \/ MintUpdate("rec")
    \/ MintFinalize("rec") \/ MintCompleted("rec")

SpecRecovery == Init /\ [][Next]_vars /\ WF_vars(RecoveryRun)

\* ---------------------------------------- intake over a store that can fail
\* new_request with Database::write_value returning Err for some puts.
\* request.add_tx(..).is_err(): CreationError is returned.
IntakePersistFails ==
    /\ pc["intake"] = "persist"
    /\ intakeResult' = [kind |-> "CreationError", id |-> rid["intake"]]
    /\ Goto("intake", "idle")
    /\ req' = [req EXCEPT !["intake"] = None]
    /\ rid' = [rid EXCEPT !["intake"] = NoId]
    /\ ltx' = [ltx EXCEPT !["intake"] = NoTx]
    /\ UNCHANGED <<store, chans, chain, count, pread, recov>>

\* update_pending_vector drops the Err of update_vector and returns Ok(()).
IntakeAddPendingFails ==
    /\ pc["intake"] = "add_pending"
    /\ pread' = [pread EXCEPT !["intake"] =
                    [list |-> pending_requests, index |-> pending_requests_index]]
    /\ Goto("intake", "add_index")
    /\ UNCHANGED <<store, chans, chain, count, req, rid, ltx, recov, intakeResult>>

\* update_pending_hashmap drops the Err of update_hashmap; add_pending_request
\* returns Ok(()), which new_request discards, and new_request returns Ok.
IntakeAddIndexFails ==
    /\ pc["intake"] = "add_index"
    /\ intakeResult' =
         [kind |-> IF pread["intake"].list.some /\ ~pread["intake"].index.some
                     THEN "panic" ELSE "Ok",
          id |-> rid["intake"]]
    /\ Goto("intake", "idle")
    /\ req' = [req EXCEPT !["intake"] = None]
    /\ rid' = [rid EXCEPT !["intake"] = NoId]
    /\ pread' = [pread EXCEPT !["intake"] = NoRead]
    /\ UNCHANGED <<store, chans, chain, count, ltx, recov>>

NextIntake ==
    \/ Intake
    \/ IntakePersistFails \/ IntakeAddPendingFails \/ IntakeAddIndexFails

SpecIntake == Init /\ [][NextIntake]_vars

\* --------------------------------------------- two overlapping intake calls
\* The HTTP server runs each call of create_request as its own task, so two
\* calls of new_request interleave at every await and every store access.
Handlers == {"intake", "intake2"}

\* add_pending_request with its reads and its first put as two steps: the
\* two calls run on different threads of the runtime, and nothing holds the
\* store between get_pending_request_and_index and update_pending_vector.
IntakeAddReadBy(h) ==
    /\ pc[h] = "add_pending"
    /\ pread' = [pread EXCEPT ![h] =
                    [list |-> pending_requests, index |-> pending_requests_index]]
    /\ Goto(h, "add_list")
    /\ UNCHANGED <<store, chans, chain, count, req, rid, ltx, recov, intakeResult>>

IntakeAddListBy(h) ==
    /\ pc[h] = "add_list"
    /\ pending_requests' = AddPendingList(pread[h].list, rid[h])
    /\ Goto(h, "add_index")
    /\ UNCHANGED <<db, pending_requests_index, completed_requests,
                   chans, chain, count, req, rid, ltx, pread, recov, intakeResult>>

NextIntakes ==
    \E h \in Handlers :
        \/ IntakeStartBy(h) \/ IntakeLockBy(h) \/ IntakePersistBy(h)
        \/ IntakeAddReadBy(h) \/ IntakeAddListBy(h) \/ IntakeAddIndexBy(h)

SpecIntakes == Init /\ [][NextIntakes]_vars

\* ================================================================= claims
\* The ladder of the specification, written independently of update_state.
LadderNext(s) ==
    CASE s = "RequestReceived" -> "TokenReceived"
      [] s = "TokenReceived"   -> "TokenMinted"
      [] s = "TokenMinted"     -> "Completed"
      [] OTHER                 -> s

LadderRank(s) ==
    CASE s = "RequestReceived" -> 1
      [] s = "TokenReceived"   -> 2
      [] s = "TokenMinted"     -> 3
      [] s = "Completed"       -> 4
      [] OTHER                 -> 0

\* s2 is s, the next step after s, or Canceled from a non-terminal s.
LadderStep(s, s2) ==
    \/ s2 = s
    \/ s \notin Terminal /\ s2 = LadderNext(s)
    \/ s \notin Terminal /\ s2 = "Canceled"

\* The positions at which a task's next step applies update_state, cancel,
\* finalize or add_tx to its in-memory request and puts it.
OpPcs ==
    {"persist", "cto_owner", "cto_update", "scto_owner", "tm_update",
     "mint_add_tx", "mint_update", "mint_finalize", "rec_minted", "rec_cancel"}

\* The in-memory request such a step works on.
InMemory(t) ==
    IF t = "rec" /\ pc[t] \in {"rec_minted", "rec_cancel"} THEN recOuter ELSE req[t]

\* Task t takes a step from one of the positions in `at` (and no restart).
Steps(t, at) == pc[t] \in at /\ pc'[t] # pc[t] /\ restarts' = restarts

\* Task t puts a request record in this step.
Puts(t) ==
    /\ Steps(t, OpPcs)
    /\ InMemory(t) # None
    /\ db'[InMemory(t).id] # db[InMemory(t).id]

\* C1: every state-machine operation applied to a request of status s
\* persists status s, the next ladder step after s, or Canceled when s is
\* not terminal: no operation leaves Completed or Canceled or skips a step.
C1_OperationsFollowLadder ==
    [][\A t \in Tasks :
          Puts(t) => LadderStep(InMemory(t).status, db'[InMemory(t).id].status)]_vars

\* Intake replaces the record of its request id (a new bridge of the id).
IntakePuts(id) == Steps("intake", {"persist"}) /\ rid["intake"] = id

\* The stored status did not move backwards and did not leave a terminal state.
StoredMonotone(s, s2) ==
    \/ s2 = s
    \/ s \notin Terminal /\ s2 = "Canceled"
    \/ s \notin Terminal /\ LadderRank(s2) > LadderRank(s)

\* C2: under every interleaving of listeners, tx workers and recovery the
\* stored status of an id never moves backwards on the ladder and never
\* leaves a terminal state (no newer record is overwritten by an older
\* snapshot).  Steps cancelling a request that is terminal in memory are
\* C1's subject and are left out here.
C2_StoredStatusMonotone ==
    [][\A id \in Ids :
          (/\ db[id] # None
           /\ ~IntakePuts(id)
           /\ \A t \in Tasks :
                (Puts(t) /\ InMemory(t).id = id)
                  => LadderStep(InMemory(t).status, db'[id].status))
          => StoredMonotone(db[id].status, db'[id].status)]_vars

Holds(list, id) == list.some /\ \E i \in 1..Len(list.v) : list.v[i] = id

InPendingList(id) == Holds(pending_requests, id)
InPendingIndex(id) ==
    pending_requests_index.some /\ id \in DOMAIN pending_requests_index.v
InPending(id) == InPendingList(id) /\ InPendingIndex(id)

\* A task is between the two puts of add_pending / remove_pending, or
\* intake has written the record and not yet added the id.
PendingWindow(id) ==
    \/ pc["intake"] \in {"add_pending", "add_index"} /\ rid["intake"] = id
    \/ pc["rec"] = "rm_index"

\* C3: outside the intake window an id is in the pending collections iff
\* its stored status is neither Completed nor Canceled.
C3_PendingIffNotTerminal ==
    \A id \in Ids :
        (db[id] # None /\ ~PendingWindow(id))
          => ((InPendingList(id) \/ InPendingIndex(id)) <=> db[id].status \notin Terminal)

\* C4: a stored record has a default output unless its status is Completed.
C4_OutputOnlyWhenCompleted ==
    \A id \in Ids :
        (db[id] # None /\ db[id].output # OutputDefault) => db[id].status = "Completed"

InCompleted(id) == Holds(completed_requests, id)

\* C5: when finalize(r, dst_contract, dst_token) returns, the in-memory and
\* the stored record have status Completed and the output given, and r.id
\* is in the completed list.
C5_FinalizeCompletes ==
    [][\A t \in Tasks :
          Steps(t, {"mint_completed"}) =>
            /\ req[t].status = "Completed"
            /\ req[t].output.detination_contract_id_or_mint = DestContract(req[t])
            /\ req[t].output.detination_token_id_or_account = DestToken(req[t])
            /\ db'[req[t].id].status = "Completed"
            /\ db'[req[t].id].output = req[t].output
            /\ Holds(completed_requests', req[t].id)]_vars

\* C6: every id of the completed list is a stored request with status
\* Completed and both output fields non-empty.
C6_CompletedListIsCompleted ==
    completed_requests.some =>
      \A i \in 1..Len(completed_requests.v) :
          LET r == db[completed_requests.v[i]] IN
            /\ r # None
            /\ r.status = "Completed"
            /\ r.output.detination_contract_id_or_mint # EmptyString
            /\ r.output.detination_token_id_or_account # EmptyString

IsPrefix(a, b) == Len(a) <= Len(b) /\ SubSeq(b, 1, Len(a)) = a
NoDuplicates(q) == \A i, j \in 1..Len(q) : q[i] = q[j] => i = j

\* C7: the completed list only grows by appending and never holds an id twice.
C7_CompletedAppendOnlyNoDuplicates ==
    [][/\ IsPrefix(completed_requests.v, completed_requests'.v)
       /\ NoDuplicates(completed_requests'.v)]_vars

\* C8: a mint processed for a request that is Completed or Canceled leaves
\* its status and its output as they are and appends nothing to the
\* completed list.
C8_MintOnTerminalChangesNothing ==
    [][\A t \in Tasks :
          (Steps(t, {"mint_finalize", "mint_completed"}) /\ req[t].status \in Terminal)
            => /\ db'[req[t].id].status = req[t].status
               /\ db'[req[t].id].output = req[t].output
               /\ completed_requests' = completed_requests]_vars

InFlight(id) ==
    db[id] # None /\ db[id].status \in {"RequestReceived", "TokenReceived", "TokenMinted"}

\* new_request is called (the call's id is in intakeResult').
IntakeCalled == pc["intake"] = "idle" /\ intakes' = intakes + 1

\* C9: intake of an id stored as RequestReceived, TokenReceived or
\* TokenMinted returns AlreadyExistingRequest(id), submits no lock
\* transaction and leaves the record and the pending collections as they are.
C9_DuplicateIntakeRejected ==
    [][(IntakeCalled /\ InFlight(intakeResult'.id)) =>
          /\ intakeResult'.kind = "AlreadyExistingRequest"
          /\ pc'["intake"] = "idle"
          /\ UNCHANGED <<store, chain>>]_vars

C9_Witness ==
    /\ intakeResult.kind = "AlreadyExistingRequest"
    /\ InFlight(intakeResult.id)
    /\ pc["intake"] = "idle"

ValidInputs == {i \in Inputs : DestinationOk(i)}

Agree(list, index) ==
    IF ~list.some \/ ~index.some
      THEN ~list.some /\ ~index.some
      ELSE /\ {list.v[i] : i \in 1..Len(list.v)} = DOMAIN index.v
           /\ \A id \in DOMAIN index.v :
                /\ index.v[id] + 1 \in 1..Len(list.v)
                /\ list.v[index.v[id] + 1] = id

\* C11: after any sequence of completed add_pending and remove_pending
\* calls the pending list and the pending index agree: same id set, and
\* pending_requests[pending_requests_index[id]] = id for every id.
C11_ListAndIndexAgree ==
    NoCall => Agree(pending_requests, pending_requests_index)

\* C12: remove_pending(id) for an id at slot s of a list of length n gives
\* a list of length n-1 where the former last element is at slot s (when
\* s < n-1) and every other element keeps its slot; the index loses id,
\* maps the moved element to s and keeps every other mapping.
C12_RemoveIsSwapRemove ==
    [][/\ (Steps("rec", {"rm_pending"}) /\ pc'["rec"] = "rm_index")
          => LET list == pending_requests.v
                 n == Len(list)
                 s == pending_requests_index.v[recOuter.id]
                 out == pending_requests'.v
             IN  list[s + 1] = recOuter.id
                   => /\ Len(out) = n - 1
                      /\ s < n - 1 => out[s + 1] = list[n]
                      /\ \A i \in 1..(n - 1) : i # s + 1 => out[i] = list[i]
       /\ Steps("rec", {"rm_index"})
          => LET list == pread["rec"].list.v
                 index == pread["rec"].index.v
                 n == Len(list)
                 s == index[recOuter.id]
                 out == pending_requests_index'.v
             IN  list[s + 1] = recOuter.id
                   => /\ DOMAIN out = DOMAIN index \ {recOuter.id}
                      /\ s < n - 1 => (list[n] \in DOMAIN out /\ out[list[n]] = s)
                      /\ \A k \in DOMAIN out : k # list[n] => out[k] = index[k]
                      /\ s = n - 1 => \A k \in DOMAIN out : out[k] = index[k]]_vars

\* add_pending_request / remove_pending_request as functions of the pair
\* they read (a call that returns): the pair they leave in the store.
add_pending_request(read, request_id) ==
    [list |-> AddPendingList(read.list, request_id),
     index |-> AddPendingIndex(read, request_id)]

remove_pending_request(read, request_id) ==
    IF read.list.some
      THEN [list |-> RemovePendingList(read, request_id),
            index |-> RemovePendingIndex(read, request_id)]
      ELSE read

\* The pending endpoint's answer: the list, or [""] when the key is absent.
PendingAnswer(list) == IF list.some THEN list.v ELSE <<EmptyString>>

NotPending(read, id) ==
    /\ ~Holds(read.list, id)
    /\ ~(read.index.some /\ id \in DOMAIN read.index.v)

\* C13: from every state of the pending collections, the initial one with
\* neither key included, add_pending(id) then remove_pending(id) for an id
\* not pending gives back the same list and index, and the pending endpoint
\* answers as before.
C13_AddThenRemoveRestores ==
    NoCall =>
      LET read == [list |-> pending_requests, index |-> pending_requests_index] IN
      \A id \in PendingIds :
          NotPending(read, id) =>
            LET after == remove_pending_request(add_pending_request(read, id), id) IN
              /\ after = read
              /\ PendingAnswer(after.list) = PendingAnswer(read.list)

\* add_pending_request returns Ok to intake in this step, no
\* remove_pending_request is under way, and no other task wrote the pending
\* collections between this call's read and its last put.
AddReturns ==
    /\ Steps("intake", {"add_index"})
    /\ intakeResult'.kind = "Ok"
    /\ pc["rec"] # "rm_index"
    /\ pending_requests = AddPendingList(pread["intake"].list, rid["intake"])
    /\ pending_requests_index = pread["intake"].index

IsLockedFresh(r, tx) ==
    /\ r.status = "RequestReceived"
    /\ r.tx_hashes = <<tx>>
    /\ tx.kind = "lock"
    /\ r.output = OutputDefault

C15_InvalidDestinationRejected ==
    [][\A input \in Inputs :
          (IntakeCalled /\ ~DestinationOk(input) /\ new_request_start(input))
             => /\ intakeResult'.kind = "InvalidDestinationAccount"
                /\ pc'["intake"] = "idle"
                /\ UNCHANGED <<store, chain>>]_vars

\* The same for an id that is not in flight at the time of the call.
C15_InvalidDestinationFreshId ==
    [][\A input \in Inputs :
          (IntakeCalled /\ ~DestinationOk(input) /\ new_request_start(input)
              /\ ~already_existing_request(BRequestNew(input).id))
             => /\ intakeResult'.kind = "InvalidDestinationAccount"
                /\ pc'["intake"] = "idle"
                /\ UNCHANGED <<store, chain>>]_vars

\* Whatever it answers, a call with an invalid destination sends and writes
\* nothing.
C15_InvalidDestinationNoEffect ==
    [][\A input \in Inputs :
          (IntakeCalled /\ ~DestinationOk(input) /\ new_request_start(input))
             => /\ pc'["intake"] = "idle"
                /\ UNCHANGED <<store, chain>>]_vars

\* The lock transaction of the intake under way fails in this step.
LockFails == Steps("intake", {"lock"}) /\ pc'["intake"] = "idle"

Restarted == restarts' = restarts + 1

InSeq(seq, id) == \E i \in 1..Len(seq) : seq[i] = id

\* C17: after a crash at any point and a restart, every request whose lock
\* transaction landed is stored in the registry and, while not terminal, is
\* listed in pending_requests, so that the recovery pass visits it.
C17_RestartKeepsLockedRequests ==
    [][Restarted
         => \A id \in locked :
               /\ db'[id] # None
               /\ db'[id].status \notin Terminal
                    => Holds(pending_requests', id) /\ InSeq(recQueue', id)]_vars

\* process_pending_request leaves its loop in this step.
PassFinished == Steps("rec", {"rec_next"}) /\ pc'["rec"] = "done"

\* C18: when the recovery pass over the pending list has finished, no id
\* stored as Completed or Canceled is in pending_requests, the ids the pass
\* itself completed or canceled included.
C18_NoTerminalPendingAfterRecovery ==
    [][PassFinished
         => \A id \in Ids :
               (db'[id] # None /\ db'[id].status \in Terminal)
                  => ~Holds(pending_requests', id)]_vars

\* The recovery pass handles the TokenMinted request recOuter on the answer
\* ans of the destination chain in this step.
RecoversMinted(ans) ==
    /\ Steps("rec", {"rec_minted"})
    /\ recOuter.tx_hashes # <<>>
    /\ RecMintedOn(ans)

\* C19: recovery of a request stored as TokenMinted, both origins: when the
\* destination chain knows the last tx hash and the destination token's
\* metadata is readable, the request is written Completed and no transaction
\* is sent; when the hash is unknown or the metadata is not readable, the
\* mint is started again (continue_from_metadata, whose mint appends its
\* hash to tx_hashes).
C19_RecoveryOfTokenMinted ==
    [][/\ RecoversMinted("readable")
          => /\ db'[recOuter.id] = [recOuter EXCEPT !.status = "Completed"]
             /\ pc'["rec"] = "rec_next"
             /\ UNCHANGED chain
       /\ (RecoversMinted("missing") \/ RecoversMinted("unreadable"))
          => /\ pc'["rec"] = "cfm"
             /\ UNCHANGED <<store, chain>>]_vars

\* The stored output of the request under recovery names the destination token.
HasOutput == recOuter.output.detination_contract_id_or_mint # EmptyString

\* The same for requests whose stored output names the destination token,
\* leaving out the unreadable metadata of a Solana destination.
C19_RecoveryOfTokenMintedWithOutput ==
    [][/\ (RecoversMinted("readable") /\ HasOutput)
          => /\ db'[recOuter.id] = [recOuter EXCEPT !.status = "Completed"]
             /\ pc'["rec"] = "rec_next"
             /\ UNCHANGED chain
       /\ (\/ RecoversMinted("missing")
           \/ /\ RecoversMinted("unreadable") /\ HasOutput
              /\ recOuter.input.origin_network = "SOLANA")
          => /\ pc'["rec"] = "cfm"
             /\ UNCHANGED <<store, chain>>]_vars

\* The stored status of id moves by one ladder step, or intake stores a new
\* bridge of a completed id.
WalksLadder(id) ==
    \/ db[id] = None
    \/ db'[id].status = db[id].status
    \/ db'[id].status = LadderNext(db[id].status) /\ db[id].status \notin Terminal
    \/ IntakePuts(id) /\ db[id].status \in Terminal

\* C20: under fair scheduling and with no chain or storage failure every
\* accepted EVM-origin request eventually is Completed with exactly two tx
\* hashes (lock and mint), its stored status going RequestReceived,
\* TokenReceived, TokenMinted, Completed in that order, whatever the order
\* of the destination TokenMinted event and the tx worker's writes.
C20_EvmRequestCompletes ==
    /\ [][\A id \in Ids : IdOrigin(id) = "EVM" => WalksLadder(id)]_vars
    /\ \A id \in Ids :
          IdOrigin(id) = "EVM"
            => ((db[id] # None)
                  ~> (db[id].status = "Completed" /\ Len(db[id].tx_hashes) = 2))

\* The part of C20 that is about the two orders of the TokenMinted event and
\* the worker's writes: a request whose record has status TokenMinted and the
\* output while its TokenMinted log is still to be delivered is completed.
C20_CompletesWhenLogComesLast ==
    \A id \in Ids :
        IdOrigin(id) = "EVM"
          => ((db[id] # None /\ db[id].status = "TokenMinted"
                 /\ db[id].output # OutputDefault /\ id \in minted)
                ~> (db[id].status = "Completed" /\ Len(db[id].tx_hashes) = 2))

\* The other order: the log was handled before the worker stored the output.
C20_CompletesWhenLogComesFirst ==
    \A id \in Ids :
        IdOrigin(id) = "EVM"
          => ((db[id] # None /\ db[id].status = "TokenReceived")
                ~> (db[id].status = "Completed"))

\* C21: for each chain, whenever the listener's subscription call returns,
\* the supervisor eventually reopens the subscription, after every return.
C21_SubscriptionReopened ==
    \A t \in {"evmL", "solL"} : (pc[t] = "returned") ~> (pc[t] = "idle")

\* The same for the EVM listener alone.
C21_EvmSubscriptionReopened == (pc["evmL"] = "returned") ~> (pc["evmL"] = "idle")

\* A task finalizes its in-memory request in this step: the output is put,
\* or the id is appended to the completed list.
Finalizes(t) == Steps(t, {"mint_finalize", "mint_completed"})

\* C22: the tx_hashes stored for an id only grow by appending (every earlier
\* stored value is a prefix of every later one) under all operations of
\* intake, workers, listeners and recovery, and no request is finalized
\* while its tx_hashes is empty.  Intake storing a new bridge of a terminal
\* id starts a new sequence and is left out.
C22_TxHashesAppendOnly ==
    [][/\ \A id \in Ids :
            (db[id] # None /\ ~(IntakePuts(id) /\ db[id].status \in Terminal))
               => /\ db'[id] # None
                  /\ IsPrefix(db[id].tx_hashes, db'[id].tx_hashes)
       /\ \A t \in Tasks : Finalizes(t) => req[t].tx_hashes # <<>>]_vars

\* The second half of C22 alone.
C22_NoFinalizeWithoutTx ==
    [][\A t \in Tasks : Finalizes(t) => req[t].tx_hashes # <<>>]_vars

\* The record r2 is r but for the status.
SameButStatus(r, r2) ==
    /\ r2.id = r.id
    /\ r2.input = r.input
    /\ r2.tx_hashes = r.tx_hashes
    /\ r2.output = r.output

\* C23: update_state moves the status one ladder step from RequestReceived,
\* TokenReceived or TokenMinted and puts the record; on a Completed or
\* Canceled request it leaves status, input, tx_hashes and output as they
\* are, so repeated calls in a terminal state give the same record.
C23_UpdateStateOneStep ==
    [][OpUpdateState
         => LET r  == req[Caller]
                r2 == db'[r.id]
            IN  /\ r2 = req'[Caller]
                /\ SameButStatus(r, r2)
                /\ \A id \in OpIds \ {r.id} : db'[id] = db[id]
                /\ r.status \notin Terminal
                     => r2.status = LadderNext(r.status) /\ r2.status # r.status
                /\ r.status \in Terminal
                     => r2 = r /\ update_state(r2) = r]_vars

\* Four calls of update_state on a new request: three steps and one call in
\* the terminal state.
C23_Witness ==
    /\ stimuli = 4
    /\ db[req[Caller].id] = req[Caller]
    /\ req[Caller].status = "Completed"
    /\ req[Caller].tx_hashes = <<>>
    /\ req[Caller].output = OutputDefault
    /\ ~completed_requests.some

\* C24: cancel(r) puts r with status Canceled and changes nothing else: input,
\* tx_hashes and output are r's, and neither the completed list nor the
\* pending collections are written.
C24_CancelFrame ==
    [][OpCancel
         => LET r  == req[Caller]
                r2 == db'[r.id]
            IN  /\ r2 = req'[Caller]
                /\ r2.status = "Canceled"
                /\ SameButStatus(r, r2)
                /\ \A id \in OpIds \ {r.id} : db'[id] = db[id]
                /\ UNCHANGED <<completed_requests, pending_requests,
                               pending_requests_index>>]_vars

\* A request with a lock hash, advanced once, is canceled.
C24_Witness ==
    /\ stimuli = 3
    /\ db[req[Caller].id] = req[Caller]
    /\ req[Caller].status = "Canceled"
    /\ Len(req[Caller].tx_hashes) = 1
    /\ req[Caller].output = OutputDefault
    /\ ~completed_requests.some

\* The three strings the id is made of.
Triple(input) == <<input.contract_or_mint, input.token_id, input.token_owner>>

\* C25: every stored record is stored under its id, its id is generate_id of
\* its input triple, and the id and the input triple stored under a key never
\* change after creation.
C25_IdIsKeyAndFixed ==
    /\ [](\A k \in OpIds :
            db[k] # None
              => /\ db[k].id = k
                 /\ db[k].id = generate_id(db[k].input.contract_or_mint,
                                            db[k].input.token_id,
                                            db[k].input.token_owner))
    /\ [][\A k \in OpIds :
            db[k] # None
              => /\ db'[k] # None
                 /\ db'[k].id = db[k].id
                 /\ Triple(db'[k].input) = Triple(db[k].input)]_vars

\* The first two parts of C25 alone.
C25_IdIsKey ==
    \A k \in OpIds :
        db[k] # None
          => /\ db[k].id = k
             /\ db[k].id = generate_id(db[k].input.contract_or_mint,
                                        db[k].input.token_id,
                                        db[k].input.token_owner)

\* C26: requests made from different (contract, token_id, token_owner)
\* triples have different ids.
C26_DistinctTriplesDistinctIds ==
    \A k \in OpIds :
        (db[k] # None /\ Triple(db[k].input) # Triple(req[Caller].input))
           => req[Caller].id # k

EventListeners == {"evmL", "solL"}

\* The channel to the tx worker of the chain opposite to listener t's.
OppositeChannel(t) == IF t = "evmL" THEN tx_sol ELSE tx_evm

\* Listener t takes a NewRequest log in this step and its handler goes on
\* to the ownership check with the record it read.
ReadsForOwnerCheck(t) ==
    Steps(t, {"idle"}) /\ pc'[t] \in {"cto_owner", "scto_owner"}

\* The ownership check of listener t's handler answers that the bridge
\* holds the asset / does not hold it.
AssetHeld(t) ==
    Steps(t, {"cto_owner", "scto_owner"}) /\ pc'[t] \in {"cto_send", "scto_send"}
AssetNotHeld(t) ==
    \/ Steps(t, {"cto_owner"}) /\ pc'[t] = "cto_update"
    \/ Steps(t, {"scto_owner"}) /\ pc'[t] = "idle"

\* The handler of listener t sends its Mint message and returns.
SendsMint(t) == Steps(t, {"cto_send", "scto_send"}) /\ pc'[t] = "idle"

\* C27: handling a NewRequest event for a request stored as RequestReceived
\* whose asset the bridge holds stores TokenReceived and puts exactly one
\* Mint message with the request id on the opposite chain's channel; for a
\* request stored in any other status the handler changes and sends nothing.
C27_NewRequestEventOnce ==
    [][\A t \in EventListeners :
          /\ ReadsForOwnerCheck(t) => req'[t].status = "RequestReceived"
          /\ (AssetHeld(t) /\ req[t].status = "RequestReceived")
                => /\ db'[rid[t]] = [req[t] EXCEPT !.status = "TokenReceived"]
                   /\ UNCHANGED chans
          /\ (AssetHeld(t) /\ req[t].status # "RequestReceived")
                => UNCHANGED db
          /\ SendsMint(t)
                => /\ OppositeChannel(t)' = Append(OppositeChannel(t), MintMessage(rid[t]))
                   /\ UNCHANGED <<db, WorkerChannel(IF t = "evmL" THEN "evmW" ELSE "solW")>>]_vars

\* The first half of C27 alone: the handler on a record read as
\* RequestReceived.
C27_FromRequestReceived ==
    [][\A t \in EventListeners :
          /\ (AssetHeld(t) /\ req[t].status = "RequestReceived")
                => /\ db'[rid[t]] = [req[t] EXCEPT !.status = "TokenReceived"]
                   /\ UNCHANGED chans
          /\ SendsMint(t)
                => /\ OppositeChannel(t)' = Append(OppositeChannel(t), MintMessage(rid[t]))
                   /\ UNCHANGED <<db, WorkerChannel(IF t = "evmL" THEN "evmW" ELSE "solW")>>]_vars

\* C28: when a NewRequest event is handled and the ownership check shows
\* that the bridge does not hold the asset, the stored status of the request
\* becomes Canceled.
C28_NotHeldCancels ==
    [][\A t \in EventListeners :
          AssetNotHeld(t) => db'[req[t].id].status = "Canceled"]_vars

\* The same for the EVM listener alone.
C28_EvmNotHeldCancels ==
    [][AssetNotHeld("evmL") => db'[req["evmL"].id].status = "Canceled"]_vars

\* Listener t takes a TokenMinted log naming id with `fields` in this step.
HandlesTokenMinted(t, id, fields) ==
    /\ pc[t] = "idle"
    /\ stimuli' = stimuli + 1 /\ intakes' = intakes /\ restarts' = restarts
    /\ id \in minted /\ IdOrigin(id) # ListenerChain(t)
    /\ UNCHANGED <<store, chans, chain>>
    /\ TokenMintedEventOn(t, id, fields)

\* C29: handling a TokenMinted event completes the request it names if and
\* only if the stored status is TokenMinted and the event's token and
\* destination equal the stored output; otherwise (unknown id, other status,
\* other fields) the stored record is left as it is.
C29_TokenMintedEventCompletes ==
    [][\A t \in EventListeners :
          /\ \A id \in minted : \A fields \in {MintedOutput(id), OtherOutput} :
                (stimuli' # stimuli /\ HandlesTokenMinted(t, id, fields))
                  => IF /\ db[id] # None
                        /\ db[id].status = "TokenMinted"
                        /\ db[id].output = fields
                       THEN pc'[t] = "tm_update" /\ req'[t] = db[id]
                       ELSE pc'[t] = "idle" /\ UNCHANGED <<db, completed_requests>>
          /\ Steps(t, {"tm_update"})
                => /\ req[t].status = "TokenMinted"
                   /\ db'[req[t].id] = [req[t] EXCEPT !.status = "Completed"]
                   /\ \A id \in Ids \ {req[t].id} : db'[id] = db[id]]_vars

\* A Solana-origin request completed with no restart: only the TokenMinted
\* handler of the EVM listener writes Completed for it.
C29_Witness ==
    \E id \in Ids :
        /\ IdOrigin(id) = "SOLANA"
        /\ restarts = 0
        /\ db[id] # None /\ db[id].status = "Completed"
        /\ db[id].output = MintedOutput(id)
        /\ Len(db[id].tx_hashes) = 2
        /\ pc["evmL"] = "idle"

TxWorkers == {"evmW", "solW"}

\* The output mint_new_token hands to finalize for request r.
DestOutput(r) ==
    [detination_token_id_or_account |-> DestToken(r),
     detination_contract_id_or_mint |-> DestContract(r)]

\* Worker t's mint_new_token, which read its request as TokenReceived and
\* whose mint transaction succeeded, puts the record for the last time in
\* this step.
MintLastPut(t) ==
    /\ Steps(t, {"mint_finalize"})
    /\ req[t].status = "TokenMinted"

\* C30: when a tx worker has processed a Mint message for a request in
\* TokenReceived and the mint transaction succeeded, the stored record has
\* the mint hash appended to tx_hashes, the output set to the destination
\* contract / mint and token id / account, and status Completed.
C30_MintCompletes ==
    [][\A t \in TxWorkers :
          /\ (Steps(t, {"mint_add_tx"}) /\ req[t].status = "TokenReceived")
                => db'[req[t].id].tx_hashes = Append(req[t].tx_hashes, ltx[t])
          /\ MintLastPut(t)
                => /\ db'[req[t].id].tx_hashes = req[t].tx_hashes
                   /\ req[t].tx_hashes[Len(req[t].tx_hashes)].kind = "mint"
                   /\ db'[req[t].id].output = DestOutput(req[t])
                   /\ db'[req[t].id].status = "Completed"]_vars

\* C30 without the status: the hash and the output are stored.
C30_MintStoresHashAndOutput ==
    [][\A t \in TxWorkers :
          /\ (Steps(t, {"mint_add_tx"}) /\ req[t].status = "TokenReceived")
                => db'[req[t].id].tx_hashes = Append(req[t].tx_hashes, ltx[t])
          /\ MintLastPut(t)
                => /\ db'[req[t].id].tx_hashes = req[t].tx_hashes
                   /\ req[t].tx_hashes[Len(req[t].tx_hashes)].kind = "mint"
                   /\ db'[req[t].id].output = DestOutput(req[t])
                   /\ db'[req[t].id].status = "TokenMinted"]_vars

\* Worker t's chain transaction (the mint of a Mint message, the lock of a
\* NewRequest message) does not land in this step.
TxFails(t) ==
    /\ Steps(t, {"mint_tx", "new_request_tx"})
    /\ txCount' = txCount

\* C31: when the chain transaction of a TxMessage fails in a tx worker, for
\* either action, the stored records, the pending collections and the
\* completed list are unchanged, nothing is sent again, and the worker is
\* back at its channel, where it takes every later message.
C31_TxFailureKeepsWorker ==
    [][\A t \in TxWorkers :
          TxFails(t) => /\ UNCHANGED store
                        /\ UNCHANGED chain
                        /\ pc'[t] = "idle"]_vars

\* C31 for a mint transaction that is sent and fails.
C31_MintErrKeepsWorker ==
    [][\A t \in TxWorkers :
          (TxFails(t) /\ pc[t] = "mint_tx" /\ ~EvmMintSignerFails(t))
             => /\ UNCHANGED store
                /\ UNCHANGED chain
                /\ pc'[t] = "idle"]_vars

\* C31 for the lock transaction of a NewRequest message.
C31_NewRequestErrKeepsWorker ==
    [][\A t \in TxWorkers :
          (TxFails(t) /\ pc[t] = "new_request_tx")
             => /\ UNCHANGED store
                /\ UNCHANGED chain
                /\ pc'[t] = "idle"]_vars

\* C32: the recovery pass eventually visits every id of the pending list it
\* read at startup; a failure while one id is processed does not stop it.
C32_RecoveryVisitsEveryId ==
    (recQueue # <<>>) ~> (recQueue = <<>>)

\* C32 for the failures that come back as a value: the pass goes on to the
\* end of the list unless the task has panicked.
C32_RecoveryVisitsUnlessPanic ==
    (recQueue # <<>>) ~> (recQueue = <<>> \/ pc["rec"] = "dead")

\* The recovery pass calls remove_pending_request in this step.
RecoveryRemoves == Steps("rec", {"rm_pending"})

\* C33: recovery after a restart tolerates a pending list and index left
\* inconsistent by a crash between their two writes, the list being the
\* authority: removing an id from pending does not fail, and when the pass
\* has finished (no intake being under way) the index maps exactly the ids
\* of the list to their slots.
C33_RecoveryRepairsPending ==
    [][/\ RecoveryRemoves => pc'["rec"] # "dead"
       /\ (PassFinished /\ pc["intake"] = "idle")
             => Agree(pending_requests', pending_requests_index')]_vars

\* C33, the removal alone.
C33_RemoveDoesNotFail ==
    [][RecoveryRemoves => pc'["rec"] # "dead"]_vars

\* C33, the repair alone.
C33_PassLeavesListAndIndexAgreeing ==
    [][(PassFinished /\ pc["intake"] = "idle")
          => Agree(pending_requests', pending_requests_index')]_vars

\* C34: every failure inside intake comes back to the caller as an error:
\* when the put of the record fails new_request returns CreationError, and
\* it returns Ok only with the record stored and the id in the pending list
\* and the pending index.
C34_IntakeFailuresSurface ==
    [][/\ (Steps("intake", {"persist"}) /\ db' = db)
             => intakeResult'.kind = "CreationError"
       /\ Steps("intake", {"add_index"})
             => /\ intakeResult'.kind \in {"Ok", "CreationError"}
                /\ intakeResult'.kind = "Ok"
                     => /\ db'[rid["intake"]] # None
                        /\ Holds(pending_requests', rid["intake"])
                        /\ pending_requests_index'.some
                        /\ rid["intake"] \in DOMAIN pending_requests_index'.v]_vars

\* C34 for the put of the request record alone.
C34_PersistFailureSurfaces ==
    [][(Steps("intake", {"persist"}) /\ db' = db)
          => /\ intakeResult'.kind = "CreationError"
             /\ pc'["intake"] = "idle"
             /\ UNCHANGED store]_vars

\* C34 for the puts of the pending list and index alone.
C34_OkMeansPending ==
    [][(Steps("intake", {"add_index"}) /\ intakeResult'.kind = "Ok")
          => /\ Holds(pending_requests', rid["intake"])
             /\ pending_requests_index'.some
             /\ rid["intake"] \in DOMAIN pending_requests_index'.v]_vars

\* C35: intake stores the request record before it adds the id to the
\* pending collections, so in every reachable state, after a crash at any
\* point too, every id of pending_requests has a record in the registry.
C35_PendingIdsHaveRecords ==
    \A i \in 1..Len(pending_requests.v) : db[pending_requests.v[i]] # None

\* After a crash between the two puts of the second add_pending_request:
\* both ids are listed and stored, the second is not yet in the index.
C35_Witness ==
    /\ restarts = 1
    /\ pending_requests.some /\ Len(pending_requests.v) = 2
    /\ \A i \in 1..2 : db[pending_requests.v[i]] # None
    /\ pending_requests_index.some
    /\ pending_requests.v[2] \notin DOMAIN pending_requests_index.v

\* A Mint message for request id is put on a tx channel in this step.
EnqueuesMint(id) ==
    \/ tx_sol' = Append(tx_sol, MintMessage(id))
    \/ tx_evm' = Append(tx_evm, MintMessage(id))

\* A mint transaction for request id is submitted and lands in this step.
SubmitsMint(id) ==
    \E t \in {"evmW", "solW", "rec"} :
        Steps(t, {"mint_tx"}) /\ rid[t] = id /\ txCount' = txCount + 1

NotTerminalStored(id) == db[id] # None /\ db[id].status \notin Terminal

\* C36: no Mint message is enqueued and no mint transaction is submitted
\* for a request whose stored status at that moment is Canceled or
\* Completed.
C36_NoMintForTerminal ==
    [][\A id \in Ids :
          (EnqueuesMint(id) \/ SubmitsMint(id)) => NotTerminalStored(id)]_vars

\* C36 for the Mint messages alone.
C36_NoMintMessageForTerminal ==
    [][\A id \in Ids : EnqueuesMint(id) => NotTerminalStored(id)]_vars

\* C36 for the mint transactions alone.
C36_NoMintTxForTerminal ==
    [][\A id \in Ids : SubmitsMint(id) => NotTerminalStored(id)]_vars

\* Call h of new_request submits its lock transaction and it lands.
SubmitsLock(h) == Steps(h, {"lock"}) /\ txCount' = txCount + 1

\* Another call has locked the same id and has not returned yet.
LockedByOther(h) ==
    \E h2 \in Handlers \ {h} :
        /\ rid[h2] = rid[h]
        /\ pc[h2] \in {"persist", "add_pending", "add_list", "add_index"}

\* C37: of two overlapping intakes for the same triple at most one is
\* accepted: no lock transaction is submitted for an id that another call
\* has locked or stored and that is still in flight, and no call stores its
\* request over the in-flight record of the other.
C37_OneIntakeAccepted ==
    [][\A h \in Handlers :
          /\ SubmitsLock(h) => ~LockedByOther(h) /\ ~InFlight(rid[h])
          /\ Steps(h, {"persist"}) => ~InFlight(rid[h])]_vars

\* C37 for calls that do not overlap a call for the same id: the second is
\* rejected at the in-flight check.
C37_OneAcceptedWhenNotOverlapping ==
    [][\A h \in Handlers :
          (Steps(h, {"idle"}) /\ InFlight(intakeResult'.id))
             => intakeResult'.kind = "AlreadyExistingRequest" /\ pc'[h] = "idle"]_vars

\* The pending collections after the step.
ListedNext(id) == Holds(pending_requests', id)
IndexedNext(id) ==
    pending_requests_index'.some /\ id \in DOMAIN pending_requests_index'.v

\* The step is one of the two puts of an add_pending_request /
\* remove_pending_request for id.
AddPuts(id) ==
    \E h \in Handlers :
        Steps(h, {"add_pending", "add_list", "add_index"}) /\ rid[h] = id
RemovePuts(id) ==
    Steps("rec", {"rm_pending", "rm_index"}) /\ recOuter.id = id

\* An intake call returns Ok: the id it added is in the list and the index.
AddedIsPending ==
    \A h \in Handlers :
        (Steps(h, {"add_index"}) /\ intakeResult'.kind = "Ok")
           => ListedNext(rid[h]) /\ IndexedNext(rid[h])

\* An id in the list and the index stays there until it is removed.
PendingStaysPending ==
    \A id \in Ids :
        (InPending(id) /\ ~RemovePuts(id)) => ListedNext(id) /\ IndexedNext(id)

\* An id in neither collection stays out of both until it is added.
RemovedStaysRemoved ==
    \A id \in Ids :
        (~InPendingList(id) /\ ~InPendingIndex(id) /\ ~AddPuts(id))
           => ~ListedNext(id) /\ ~IndexedNext(id)

\* C38: with add_pending_request and remove_pending_request running
\* concurrently no update of the pending collections is lost: the id added
\* by a successful intake is in the list and the index and stays there until
\* a remove for it, and a removed id stays removed.
C38_NoLostPendingUpdate ==
    [][AddedIsPending /\ PendingStaysPending /\ RemovedStaysRemoved]_vars

\* C38, the three parts on their own.
C38_AddedIsPending == [][AddedIsPending]_vars
C38_PendingStaysPending == [][PendingStaysPending]_vars
C38_RemovedStaysRemoved == [][RemovedStaysRemoved]_vars

\* C39: pending_requests never holds the same id twice, whatever intakes
\* (a new bridge of a Completed or Canceled id still listed included),
\* events, mints and recovery passes have run.
C39_PendingListHasNoDuplicates ==
    NoDuplicates(pending_requests.v)

\* The record r holds a lock transaction followed by a mint transaction.
HasMintTx(r) ==
    /\ Len(r.tx_hashes) >= 2
    /\ r.tx_hashes[1].kind = "lock"
    /\ r.tx_hashes[2].kind = "mint"

OutputPopulated(r) ==
    /\ r.output.detination_contract_id_or_mint # EmptyString
    /\ r.output.detination_token_id_or_account # EmptyString

\* C40: in every reachable state a request stored as TokenMinted or
\* Completed has had its mint submitted: tx_hashes holds the lock and then
\* the mint, and the output is populated.
C40_MintedMeansMintSubmitted ==
    \A id \in Ids :
        (db[id] # None /\ db[id].status \in {"TokenMinted", "Completed"})
           => HasMintTx(db[id]) /\ OutputPopulated(db[id])

\* C40, the transactions alone.
C40_MintedHasMintTx ==
    \A id \in Ids :
        (db[id] # None /\ db[id].status \in {"TokenMinted", "Completed"})
           => HasMintTx(db[id])

\* C40, the output alone.
C40_MintedHasOutput ==
    \A id \in Ids :
        (db[id] # None /\ db[id].status \in {"TokenMinted", "Completed"})
           => OutputPopulated(db[id])

====
